---- MODULE Spec2Model ----
(***************************************************************************)
(* A model of DSRFFileParser.parse_file (src/parsers/dsrf_file_parser.py): *)
(* the generator that turns the tokenized lines of one flat file into a    *)
(* lazy sequence of Block records.                                         *)
(*                                                                         *)
(* A line is a sequence of string fields.  TLA+ sequences are 1-based:     *)
(* line[1] here is Python's line[0], line[2] is Python's line[1].          *)
(***************************************************************************)
EXTENDS Integers, Sequences, FiniteSets, TLC

VARIABLES
    source,         \* the family of files the line source reads from
    lines,          \* the lines csv.reader has produced so far, in file order
    tsv,            \* the file handle parse_file opens
    file_number,    \* the file_number argument of parse_file
    row_number,     \* the local row_number of parse_file
    current_block,  \* the local current_block of parse_file
    emitted,        \* the blocks yielded to the consumer, in order
    closures,       \* how many times is_end_of_block returned True
    log,            \* the arguments of logger.error, in order
    pc              \* where the generator stands

vars == <<source, lines, tsv, file_number, row_number, current_block, emitted,
          closures, log, pc>>

-----------------------------------------------------------------------------
(* Bounds of the model.                                                    *)

MaxLines == 3

FileNumbers == {1, 2}

-----------------------------------------------------------------------------
(* constants.py                                                            *)

HEAD_ROWS == {"HEAD", "SY01", "SY02", "SY03", "SY04", "FHEA"}

FOOT_ROWS == {"FOOT", "FFOO"}

COMMENT_SIGN == "#"

-----------------------------------------------------------------------------
(* String primitives, tabulated over the fields the model feeds in.        *)

\* str.upper()
upper(s) ==
    CASE s = "head"   -> "HEAD"
      [] s = "foot"   -> "FOOT"
      [] s = "body01" -> "BODY01"
      [] s = "abc"    -> "ABC"
      [] s = "x"      -> "X"
      [] s = "foo"    -> "FOO"
      [] s = "bar"    -> "BAR"
      [] s = "baz"    -> "BAZ"
      [] s = "done"   -> "DONE"
      [] s = "# note" -> "# NOTE"
      [] s = "a|b"    -> "A|B"
      [] s = "a"      -> "A"
      [] s = "b"      -> "B"
      [] OTHER        -> s

\* str.startswith(prefix)
startswith(s, prefix) == <<s, prefix>> \in {<<"# note", "#">>, <<"#", "#">>}

\* The strings int() accepts, and the integer it returns for each.
IntLiterals == {"1", "2", "01"}

int(s) ==
    CASE s = "1"  -> 1
      [] s = "01" -> 1
      [] s = "2"  -> 2

-----------------------------------------------------------------------------
(* Results of calls that may raise.  tag "ok" carries the returned value;  *)
(* tag "ValidationError" is an error.ValidationError (RowValidationFailure *)
(* or CellValidationFailure) with the row number and the value its message *)
(* cites; the tags "IndexError" and "KeyError" are exceptions parse_file   *)
(* does not catch.                                                         *)

NoErr == [exc |-> "", row_number |-> 0, cited |-> ""]

Ok(v) == [tag |-> "ok", val |-> v, err |-> NoErr]

Raise(exc, rn, cited) ==
    [tag |-> "ValidationError", val |-> 0,
     err |-> [exc |-> exc, row_number |-> rn, cited |-> cited]]

IndexError == [tag |-> "IndexError", val |-> 0, err |-> NoErr]

Uncaught(tag) == tag \notin {"ok", "ValidationError"}

-----------------------------------------------------------------------------
(* The validator table handed to parse_file: row type -> one validator per *)
(* column, NoValidator standing for None.                                  *)

NoValidator == [cell_name |-> "", cell_type |-> "NONE", repeated |-> FALSE]

StringValidator(name) ==
    [cell_name |-> name, cell_type |-> "STRING", repeated |-> FALSE]

\* A string validator of a column that may hold several values.
RepeatedStringValidator(name) ==
    [cell_name |-> name, cell_type |-> "STRING", repeated |-> TRUE]

IntegerValidator(name) ==
    [cell_name |-> name, cell_type |-> "INTEGER", repeated |-> FALSE]

row_validators_list ==
    [rt \in {"HEAD", "SY01", "BODY01", "FOOT"} |->
        CASE rt = "HEAD"   -> <<StringValidator("RecordType"),
                                StringValidator("MessageVersion")>>
          [] rt = "SY01"   -> <<StringValidator("RecordType"),
                                StringValidator("Summary")>>
          [] rt = "BODY01" -> <<StringValidator("RecordType"),
                                IntegerValidator("BlockId"),
                                RepeatedStringValidator("Title")>>
          [] rt = "FOOT"   -> <<NoValidator,
                                StringValidator("Note"),
                                IntegerValidator("Count")>>]

\* What a validator returns: one value, or the list of a column's values.
\* items is the data as a list, which is what get_cell_object makes of it.
Scalar(x) == [is_list |-> FALSE, items |-> <<x>>]

List(q) == [is_list |-> TRUE, items |-> q]

None == [tag |-> "None", val |-> List(<<>>), err |-> NoErr]

\* str.split(constants.REPEATED_VALUE_DELIMITER)
split(s) ==
    CASE s = "a|b" -> <<"a", "b">>
      [] OTHER     -> <<s>>

\* cell_validator.validate_value(cell_content, row_number, file_name, block):
\* the parsed value, None, or a raised CellValidationFailure.  An empty
\* field is no data: a string validator returns it as it is, an integer
\* validator returns None.
validate_value(cell_validator, cell_content, rn) ==
    IF cell_content = "BAD"
    THEN Raise("CellValidationFailure", rn, cell_content)
    ELSE IF cell_validator.cell_type = "INTEGER"
    THEN IF cell_content = "" THEN None
         ELSE IF cell_content \in IntLiterals
         THEN Ok(Scalar(int(cell_content)))
         ELSE Raise("CellValidationFailure", rn, cell_content)
    ELSE IF cell_content = "" THEN Ok(Scalar(""))
    ELSE IF cell_validator.repeated THEN Ok(List(split(cell_content)))
    ELSE Ok(Scalar(cell_content))

-----------------------------------------------------------------------------
(* Blocks, rows and cells.                                                 *)

\* block_pb2.Block(file_number=file_number).  A new block reads as type HEAD
\* (the enum's zero value); type_assigned records whether parse_file has
\* assigned the field, oid is the identity of the Python object.
NewBlock(fn, oid) ==
    [type |-> "HEAD", type_assigned |-> FALSE, number |-> 0, version |-> "",
     file_number |-> fn, rows |-> <<>>, oid |-> oid]

\* `not current_block.type`
TypeIsFalsy(block) == block.type = "HEAD"

\* Mutant: the values always go to string_value.
get_cell_object_as_string(cell_validator, cell_parsed_data) ==
    [name |-> cell_validator.cell_name,
     cell_type |-> cell_validator.cell_type,
     string_value  |-> cell_parsed_data.items,
     integer_value |-> <<>>,
     decimal_value |-> <<>>,
     boolean_value |-> <<>>]

get_cell_object(cell_validator, cell_parsed_data) ==
    LET data == cell_parsed_data.items  \* lines 73-74
    IN  [name |-> cell_validator.cell_name,
         cell_type |-> cell_validator.cell_type,
         string_value  |-> IF cell_validator.cell_type = "STRING"
                           THEN data ELSE <<>>,
         integer_value |-> IF cell_validator.cell_type = "INTEGER"
                           THEN data ELSE <<>>,
         decimal_value |-> IF cell_validator.cell_type = "DECIMAL"
                           THEN data ELSE <<>>,
         boolean_value |-> IF cell_validator.cell_type = "BOOLEAN"
                           THEN data ELSE <<>>]

Min(a, b) == IF a <= b THEN a ELSE b

\* Python's `x == ''`: true of the empty str only, whatever the type of x.
IsEmptyStr(x) == ToString(x) = ToString("")

\* `cell_parsed_data not in (None, '')`
HasData(r) ==
    /\ r.tag = "ok"
    /\ ~(~r.val.is_list /\ IsEmptyStr(r.val.items[1]))

\* The columns zip(row_validator, line) pairs up.
ZippedColumns(row_validator, line) == 1 .. Min(Len(row_validator), Len(line))

RECURSIVE CellsFrom(_, _, _, _)
CellsFrom(row_validator, line, rn, i) ==
    IF i > Min(Len(row_validator), Len(line)) THEN <<>>
    ELSE LET v == row_validator[i]
             r == validate_value(v, line[i], rn)
         IN  (IF v # NoValidator /\ HasData(r)
              THEN <<get_cell_object(v, r.val)>> ELSE <<>>)
             \o CellsFrom(row_validator, line, rn, i + 1)

get_row_object(row_validator, line, rn, block_number) ==
    LET failing == {i \in ZippedColumns(row_validator, line) :
                       /\ row_validator[i] # NoValidator
                       /\ validate_value(row_validator[i], line[i], rn).tag
                              = "ValidationError"}
    IN  IF failing # {}
        THEN LET first == CHOOSE i \in failing : \A j \in failing : i <= j
             IN  validate_value(row_validator[first], line[first], rn)
        ELSE Ok([type |-> upper(line[1]), row_number |-> rn,
                 cells |-> CellsFrom(row_validator, line, rn, 1)])

-----------------------------------------------------------------------------
(* The helpers of DSRFFileParser.                                          *)

get_block_number(line, rn) ==
    IF Len(line) < 2
    THEN IndexError     \* int(line[1]) and then line[1].upper() in the handler
    ELSE IF line[2] \in IntLiterals
    THEN Ok(int(line[2]))
    ELSE Raise("RowValidationFailure", rn, upper(line[2]))

\* Mutant: every non-empty line is taken to have a known row type.
_get_row_type_lenient(line, validators, rn) ==
    IF line = <<>>
    THEN Raise("RowValidationFailure", rn, "")
    ELSE Ok(upper(line[1]))

_get_row_type(line, validators, rn) ==
    IF line = <<>>
    THEN Raise("RowValidationFailure", rn, "")
    ELSE IF upper(line[1]) \notin DOMAIN validators
    THEN Raise("RowValidationFailure", rn, upper(line[1]))
    ELSE Ok(upper(line[1]))

\* Mutant: a change of block number does not end a BODY block.
is_end_of_block_ignoring_number(line, rn, block) ==
    IF block.type = "HEAD"
    THEN Ok(line[1] \notin HEAD_ROWS)
    ELSE IF block.type = "FOOT"
    THEN Ok(line[1] \notin FOOT_ROWS)
    ELSE Ok(line[1] \in FOOT_ROWS)

is_end_of_block(line, rn, block) ==
    IF block.type = "HEAD"
    THEN Ok(line[1] \notin HEAD_ROWS)
    ELSE IF block.type = "FOOT"
    THEN Ok(line[1] \notin FOOT_ROWS)
    ELSE IF line[1] \in FOOT_ROWS
    THEN Ok(TRUE)
    ELSE LET n == get_block_number(line, rn)
         IN  IF n.tag = "ok" THEN Ok(block.number # n.val) ELSE n

\* Mutant: only a first field equal to the comment sign makes a comment.
is_comment_exact(line) ==
    IF line = <<>> THEN IndexError ELSE Ok(line[1] = COMMENT_SIGN)

\* `line[0].startswith(constants.COMMENT_SIGN)`; IndexError on an empty line.
is_comment(line) ==
    IF line = <<>> THEN IndexError ELSE Ok(startswith(line[1], COMMENT_SIGN))

-----------------------------------------------------------------------------
(* parse_file, lines 169-190: what one classified line does to the open    *)
(* block once the end-of-block check is over.  The result carries the      *)
(* block as the line leaves it, also when the line raises.                 *)

Outcome(tag, block, err) == [tag |-> tag, block |-> block, err |-> err]

\* Lines 170-180.
head_foot_row(block, line, rn, row_type) ==
    LET typed == [block EXCEPT
                    !.type = IF row_type \in FOOT_ROWS THEN "FOOT" ELSE "HEAD",
                    !.type_assigned = TRUE]
    IN  IF row_type = "HEAD" /\ Len(line) < 2
        THEN Outcome("IndexError", typed, NoErr)
        ELSE LET versioned == IF row_type = "HEAD"
                              THEN [typed EXCEPT !.version = line[2]]
                              ELSE typed
                 r == get_row_object(row_validators_list[row_type], line, rn,
                                     row_type)
             IN  IF row_type \notin DOMAIN row_validators_list
                 THEN Outcome("KeyError", versioned, NoErr)
                 ELSE IF r.tag = "ok"
                 THEN Outcome("ok",
                              [versioned EXCEPT !.rows = Append(@, r.val)],
                              NoErr)
                 ELSE Outcome(r.tag, versioned, r.err)

\* Lines 182-190.
body_row(block, line, rn, row_type) ==
    LET n == get_block_number(line, rn)
    IN  IF n.tag # "ok"
        THEN Outcome(n.tag, block, n.err)
        ELSE LET r == get_row_object(row_validators_list[row_type], line, rn,
                                     n.val)
                 started == IF TypeIsFalsy(block)
                            THEN [block EXCEPT !.type = "BODY",
                                               !.type_assigned = TRUE,
                                               !.number = n.val]
                            ELSE block
             IN  IF row_type \notin DOMAIN row_validators_list
                 THEN Outcome("KeyError", block, NoErr)
                 ELSE IF r.tag = "ok"
                 THEN Outcome("ok",
                              [started EXCEPT !.rows = Append(@, r.val)],
                              NoErr)
                 ELSE Outcome(r.tag, block, r.err)

parse_row(block, line, rn, row_type) ==
    IF row_type \in HEAD_ROWS \/ row_type \in FOOT_ROWS
    THEN head_foot_row(block, line, rn, row_type)
    ELSE body_row(block, line, rn, row_type)

\* The handler of line 191-192 and the way the loop goes on after a line.
AfterRow(o) ==
    /\ current_block' = o.block
    /\ log' = IF o.tag = "ValidationError" THEN Append(log, o.err) ELSE log
    /\ pc' = IF Uncaught(o.tag) THEN "crashed" ELSE "loop"

-----------------------------------------------------------------------------
(* The line source: the lines a file may hold, and the files.              *)

Lines ==
    { <<"HEAD", "3.0">>,
      <<"head", "3.0">>,
      <<"SY01", "x">>,
      <<"SY01", "1">>,
      <<"BODY01", "1", "foo">>,
      <<"FOOT", "done">>,
      <<"BODY01", "abc", "x">>,
      <<"BODY01">>,
      <<>>,
      <<"ZZ99", "1", "foo">>,
      <<"# note">>,
      <<"BODY01", "1", "BAD">>,
      <<"HEAD", "BAD">>,
      <<"foot", "done">>,
      <<"FOOT", "done", "">>,
      <<"BODY01", "1", "">>,
      <<"BODY01", "2", "a|b">> }

\* The six-line file of the specification's scenario.
Scenario ==
    << <<"HEAD", "3.0">>,
       <<"SY01", "x">>,
       <<"BODY01", "1", "foo">>,
       <<"BODY01", "1", "bar">>,
       <<"BODY01", "2", "baz">>,
       <<"FOOT", "done">> >>

InsertAt(f, k, line) == SubSeq(f, 1, k) \o <<line>> \o SubSeq(f, k + 1, Len(f))

\* The scenario, and the scenario with one more line somewhere in it.
ScenarioFiles ==
    {Scenario} \cup
    {InsertAt(Scenario, k, line) : k \in 0 .. Len(Scenario), line \in Lines}

IsPrefix(p, f) == Len(p) <= Len(f) /\ SubSeq(f, 1, Len(p)) = p

\* The line source may hand over `line` next.
MayRead(line) ==
    IF source = "scenario"
    THEN \E f \in ScenarioFiles : IsPrefix(Append(lines, line), f)
    ELSE Len(lines) < MaxLines /\ line \in Lines

\* The line source may be exhausted now.
MayEnd == source = "scenario" => lines \in ScenarioFiles

-----------------------------------------------------------------------------
(* The generator.                                                          *)

InitParser ==
    /\ lines = <<>>
    /\ tsv = "unopened"
    /\ file_number \in FileNumbers
    /\ row_number = 0
    /\ current_block = NewBlock(file_number, 0)
    /\ emitted = <<>>
    /\ closures = 0
    /\ log = <<>>
    /\ pc = "start"

Init == source = "any" /\ InitParser

InitScenario == source = "scenario" /\ InitParser

\* Lines 150-157: the first next() opens the file and creates the first block.
Start ==
    /\ pc = "start"
    /\ tsv' = "open"
    /\ row_number' = 0
    /\ current_block' = NewBlock(file_number, 0)
    /\ pc' = "loop"
    /\ UNCHANGED <<source, lines, file_number, emitted, closures, log>>

\* Lines 158-159: csv.reader hands over one more line.
Read(line) ==
    /\ pc = "loop"
    /\ MayRead(line)
    /\ lines' = Append(lines, line)
    /\ row_number' = row_number + 1
    /\ UNCHANGED <<source, tsv, file_number>>

\* Line 161 on a line without fields: IndexError, outside the try.
CommentCheckRaises(line) ==
    /\ Read(line)
    /\ is_comment(line).tag = "IndexError"
    /\ pc' = "crashed"
    /\ UNCHANGED <<current_block, emitted, closures, log>>

\* Mutant: a comment line is skipped before it is counted.
SkipComment_uncounted(line) ==
    /\ pc = "loop"
    /\ MayRead(line)
    /\ is_comment(line) = Ok(TRUE)
    /\ lines' = Append(lines, line)
    /\ UNCHANGED <<source, tsv, file_number, row_number, current_block,
                   emitted, closures, log, pc>>

\* Lines 161-162.
SkipComment(line) ==
    /\ Read(line)
    /\ is_comment(line) = Ok(TRUE)
    /\ UNCHANGED <<current_block, emitted, closures, log, pc>>

\* Line 164 raising, caught at line 191.
RowTypeFailure(line) ==
    /\ Read(line)
    /\ is_comment(line) = Ok(FALSE)
    /\ LET t == _get_row_type(line, row_validators_list, row_number')
       IN  /\ t.tag = "ValidationError"
           /\ log' = Append(log, t.err)
    /\ UNCHANGED <<current_block, emitted, closures, pc>>

\* Line 166 raising: a validation failure is caught at line 191, an
\* IndexError leaves the generator.
EndOfBlockRaises(line) ==
    /\ Read(line)
    /\ is_comment(line) = Ok(FALSE)
    /\ _get_row_type(line, row_validators_list, row_number').tag = "ok"
    /\ LET e == is_end_of_block(line, row_number', current_block)
       IN  /\ e.tag # "ok"
           /\ log' = IF e.tag = "ValidationError" THEN Append(log, e.err)
                     ELSE log
           /\ pc' = IF Uncaught(e.tag) THEN "crashed" ELSE "loop"
    /\ UNCHANGED <<current_block, emitted, closures>>

\* Lines 166-167: the block is over; the generator yields it and waits.
CloseBlock(line) ==
    /\ Read(line)
    /\ is_comment(line) = Ok(FALSE)
    /\ _get_row_type(line, row_validators_list, row_number').tag = "ok"
    /\ is_end_of_block(line, row_number', current_block) = Ok(TRUE)
    /\ emitted' = Append(emitted, current_block)
    /\ closures' = closures + 1
    /\ pc' = "yield"
    /\ UNCHANGED <<current_block, log>>

\* Lines 166, 169-192: the block goes on with this line.
ContinueBlock(line) ==
    /\ Read(line)
    /\ is_comment(line) = Ok(FALSE)
    /\ LET t == _get_row_type(line, row_validators_list, row_number')
       IN  /\ t.tag = "ok"
           /\ is_end_of_block(line, row_number', current_block) = Ok(FALSE)
           /\ AfterRow(parse_row(current_block, line, row_number', t.val))
    /\ UNCHANGED <<emitted, closures>>

\* Mutant: after the yield the parser goes on with the block it has yielded
\* (the rebinding of line 168 left out).
Resume_reusing_block ==
    /\ pc = "yield"
    /\ LET line == lines[Len(lines)]
           t == _get_row_type(line, row_validators_list, row_number)
       IN  AfterRow(parse_row(current_block, line, row_number, t.val))
    /\ UNCHANGED <<source, lines, tsv, file_number, row_number, emitted, closures>>

\* Lines 168-192: the consumer asks for the next block; the line that closed
\* the last one goes to a new block.
Resume ==
    /\ pc = "yield"
    /\ LET line == lines[Len(lines)]
           t == _get_row_type(line, row_validators_list, row_number)
       IN  AfterRow(parse_row(NewBlock(file_number, Len(emitted)), line,
                              row_number, t.val))
    /\ UNCHANGED <<source, lines, tsv, file_number, row_number, emitted, closures>>

\* Mutant: at the end of the input a block without rows is not yielded.
EndOfInput_skipping_empty ==
    /\ pc = "loop"
    /\ MayEnd
    /\ emitted' = IF current_block.rows = <<>> THEN emitted
                  ELSE Append(emitted, current_block)
    /\ pc' = IF current_block.rows = <<>> THEN "done" ELSE "yield_final"
    /\ UNCHANGED <<source, lines, tsv, file_number, row_number, current_block,
                   closures, log>>

\* Line 194: csv.reader is exhausted; the open block is yielded.
EndOfInput ==
    /\ pc = "loop"
    /\ MayEnd
    /\ emitted' = Append(emitted, current_block)
    /\ pc' = "yield_final"
    /\ UNCHANGED <<source, lines, tsv, file_number, row_number, current_block,
                   closures, log>>

\* The next() after the last block: the generator returns.
Finish ==
    /\ pc = "yield_final"
    /\ pc' = "done"
    /\ UNCHANGED <<source, lines, tsv, file_number, row_number, current_block,
                   emitted, closures, log>>

\* The consumer stops asking while the generator waits at a yield.
Abandon ==
    /\ pc \in {"yield", "yield_final"}
    /\ pc' = "abandoned"
    /\ UNCHANGED <<source, lines, tsv, file_number, row_number, current_block,
                   emitted, closures, log>>

\* parse_file never closes tsv (no close() and no `with` in lines 150-194):
\* once the generator is over, whether and when the handle is closed is up to
\* the runtime's finalizer of the unreachable file object.
Finalize ==
    /\ pc \in {"done", "crashed", "abandoned"}
    /\ tsv = "open"
    /\ tsv' = "closed"
    /\ UNCHANGED <<source, lines, file_number, row_number, current_block,
                   emitted, closures, log, pc>>

AllLines == Lines \cup {Scenario[i] : i \in DOMAIN Scenario}

Next ==
    \/ Start
    \/ \E line \in AllLines : CommentCheckRaises(line)
    \/ \E line \in AllLines : SkipComment(line)
    \/ \E line \in AllLines : RowTypeFailure(line)
    \/ \E line \in AllLines : EndOfBlockRaises(line)
    \/ \E line \in AllLines : CloseBlock(line)
    \/ \E line \in AllLines : ContinueBlock(line)
    \/ Resume
    \/ EndOfInput
    \/ Finish
    \/ Abandon
    \/ Finalize

Spec == Init /\ [][Next]_vars

SpecScenario == InitScenario /\ [][Next]_vars

-----------------------------------------------------------------------------
(* Vocabulary of the properties.                                           *)

Last(q) == q[Len(q)]

\* This step reads a line; TheLine is that line.
JustRead == Len(lines') = Len(lines) + 1

TheLine == lines'[Len(lines')]

Terminated == pc \in {"done", "crashed"}

\* A row type of the validator table that is neither HEAD- nor FOOT-class.
IsBodyLine(line) ==
    /\ line # <<>>
    /\ upper(line[1]) \in DOMAIN row_validators_list
    /\ upper(line[1]) \notin HEAD_ROWS \cup FOOT_ROWS

IsCommentLine(line) == line # <<>> /\ startswith(line[1], COMMENT_SIGN)

IsUnknownLine(line) ==
    /\ line # <<>>
    /\ ~startswith(line[1], COMMENT_SIGN)
    /\ upper(line[1]) \notin DOMAIN row_validators_list

\* The blocks the parser has made so far: the emitted ones and the open one.
AllBlocks ==
    {emitted[i] : i \in DOMAIN emitted} \cup
    (IF pc \in {"start", "yield", "yield_final", "done", "abandoned"}
     THEN {} ELSE {current_block})

NoRowFrom(k) ==
    \A b \in AllBlocks \cup {current_block} :
        \A i \in DOMAIN b.rows : b.rows[i].row_number # k

\* What the consumer sees of a block.
Summary(b) ==
    [type |-> b.type, number |-> b.number, version |-> b.version,
     rows |-> Len(b.rows)]

-----------------------------------------------------------------------------
(* C1: the scenario file HEAD 3.0 / SY01 x / BODY01 1 foo / BODY01 1 bar / *)
(* BODY01 2 baz / FOOT done, read to its end, emits exactly four blocks in *)
(* this order: HEAD with version "3.0" and 2 rows, BODY number 1 with 2    *)
(* rows, BODY number 2 with 1 row, FOOT with 1 row.                        *)
C1_ScenarioBlocks ==
    (lines = Scenario /\ pc \in {"yield_final", "done"}) =>
        /\ Len(emitted) = 4
        /\ Summary(emitted[1]).type = "HEAD"
        /\ Summary(emitted[1]).version = "3.0"
        /\ Summary(emitted[1]).rows = 2
        /\ Summary(emitted[2]).type = "BODY"
        /\ Summary(emitted[2]).number = 1
        /\ Summary(emitted[2]).rows = 2
        /\ Summary(emitted[3]).type = "BODY"
        /\ Summary(emitted[3]).number = 2
        /\ Summary(emitted[3]).rows = 1
        /\ Summary(emitted[4]).type = "FOOT"
        /\ Summary(emitted[4]).rows = 1

C1_Witness == lines = Scenario /\ pc = "done" /\ Len(emitted) = 4

-----------------------------------------------------------------------------
(* C2: whatever the open block is, reading a body-type line whose second   *)
(* field is not an integer adds no row, reports a row-validation error     *)
(* citing the offending value, emits no block and leaves the open block's  *)
(* type, number, version and rows as they were.                            *)
C2_BadBlockIdLeavesBlock ==
    [][(JustRead /\ IsBodyLine(TheLine) /\ Len(TheLine) >= 2
                 /\ TheLine[2] \notin IntLiterals)
        => /\ emitted' = emitted
           /\ current_block' = current_block
           /\ pc' = "loop"
           /\ log' = Append(log, [exc |-> "RowValidationFailure",
                                  row_number |-> Len(lines'),
                                  cited |-> upper(TheLine[2])])]_vars

-----------------------------------------------------------------------------
(* C3: reading a line with no fields reports a row-validation error,       *)
(* leaves the open block and the emitted blocks as they were, and the      *)
(* parser goes on to the next line.                                        *)
C3_EmptyLineRecoverable ==
    [][(JustRead /\ TheLine = <<>>)
        => /\ pc' = "loop"
           /\ emitted' = emitted
           /\ current_block' = current_block
           /\ Len(log') = Len(log) + 1
           /\ Last(log').exc = "RowValidationFailure"
           /\ Last(log').row_number = Len(lines')]_vars

-----------------------------------------------------------------------------
(* C4: a body line that has only its row-type field never ends the parse:  *)
(* once the line has been dealt with, the parser is back in its loop with  *)
(* a row-validation error for that line in the log and no Row built from   *)
(* the line.                                                               *)
C4_MissingBlockIdRecoverable ==
    (lines # <<>> /\ IsBodyLine(Last(lines)) /\ Len(Last(lines)) = 1) =>
        /\ pc # "crashed"
        /\ NoRowFrom(Len(lines))
        /\ pc = "loop" =>
              /\ log # <<>>
              /\ Last(log).exc = "RowValidationFailure"
              /\ Last(log).row_number = Len(lines)

-----------------------------------------------------------------------------
(* C5: reading a line whose upper-cased first field is not a key of the    *)
(* validator table emits no block and leaves the open block as it was, and *)
(* no block, open or emitted, ever holds a Row built from such a line.     *)
C5_UnknownRowTypeFrame ==
    [][/\ (JustRead /\ IsUnknownLine(TheLine))
            => /\ emitted' = emitted
               /\ current_block' = current_block
               /\ closures' = closures
               /\ pc' = "loop"
       /\ \A k \in DOMAIN lines' :
              IsUnknownLine(lines'[k]) =>
                  /\ \A i \in DOMAIN current_block'.rows :
                         current_block'.rows[i].row_number # k
                  /\ \A e \in DOMAIN emitted' :
                         \A i \in DOMAIN emitted'[e].rows :
                             emitted'[e].rows[i].row_number # k]_vars

C5_Witness ==
    /\ pc = "loop"
    /\ lines # <<>>
    /\ IsUnknownLine(Last(lines))
    /\ current_block.type = "BODY"
    /\ current_block.rows # <<>>

-----------------------------------------------------------------------------
(* C6: when the parse is over, the number of emitted blocks is the number  *)
(* of lines on which is_end_of_block signalled closure, plus one for the   *)
(* final flush.                                                            *)
C6_BlocksAreClosuresPlusOne ==
    Terminated => Len(emitted) = closures + 1

-----------------------------------------------------------------------------
(* C7: once the line source is exhausted, the block open at that moment    *)
(* has been emitted exactly once, as the last element of the output,       *)
(* whatever its type.                                                      *)
C7_FinalFlush ==
    pc \in {"yield_final", "done"} =>
        /\ emitted # <<>>
        /\ Last(emitted) = current_block
        /\ Cardinality({i \in DOMAIN emitted :
                           emitted[i].oid = current_block.oid}) = 1

C7_Witness ==
    /\ pc = "done"
    /\ Last(emitted).type = "BODY"
    /\ Last(emitted).rows # <<>>
    /\ \A i \in DOMAIN lines : IsBodyLine(lines[i])

-----------------------------------------------------------------------------
(* C8: in every emitted block the row numbers increase strictly along the  *)
(* rows, and each Row is the one built from the line at its row number,    *)
(* counting comment lines and rejected lines.                              *)
C8_RowNumbersArePhysical ==
    \A b \in DOMAIN emitted :
        LET rows == emitted[b].rows
        IN  /\ \A i \in DOMAIN rows : \A j \in DOMAIN rows :
                  i < j => rows[i].row_number < rows[j].row_number
            /\ \A i \in DOMAIN rows :
                  /\ rows[i].row_number \in DOMAIN lines
                  /\ LET line == lines[rows[i].row_number]
                     IN  /\ line # <<>>
                         /\ rows[i].type \in DOMAIN row_validators_list
                         /\ get_row_object(row_validators_list[rows[i].type],
                                           line, rows[i].row_number, 0)
                                = Ok(rows[i])

C8_Witness ==
    \E b \in DOMAIN emitted :
        /\ Len(emitted[b].rows) = 2
        /\ emitted[b].rows[1].row_number = 1
        /\ emitted[b].rows[2].row_number = 3
        /\ IsCommentLine(lines[2])

-----------------------------------------------------------------------------
(* C9: reading a comment line adds no Row, emits no block, reports nothing *)
(* and leaves the open block as it was, while the line is counted; a valid *)
(* body row with the open block's number that follows the comment is       *)
(* appended to that same block under its own line number.                  *)
C9_CommentFrame ==
    [][/\ (JustRead /\ IsCommentLine(TheLine))
            => /\ emitted' = emitted
               /\ current_block' = current_block
               /\ log' = log
               /\ pc' = "loop"
               /\ row_number' = row_number + 1
       /\ (/\ JustRead
           /\ lines # <<>>
           /\ IsCommentLine(Last(lines))
           /\ current_block.type = "BODY"
           /\ IsBodyLine(TheLine)
           /\ get_block_number(TheLine, 0) = Ok(current_block.number)
           /\ get_row_object(row_validators_list[upper(TheLine[1])], TheLine,
                             0, 0).tag = "ok")
            => /\ emitted' = emitted
               /\ current_block'.oid = current_block.oid
               /\ Len(current_block'.rows) = Len(current_block.rows) + 1
               /\ Last(current_block'.rows).row_number = Len(lines')
               /\ [current_block' EXCEPT !.rows = current_block.rows]
                      = current_block]_vars

C9_Witness ==
    /\ pc = "loop"
    /\ Len(lines) = 3
    /\ IsBodyLine(lines[1])
    /\ IsCommentLine(lines[2])
    /\ IsBodyLine(lines[3])
    /\ Len(current_block.rows) = 2
    /\ current_block.rows[1].row_number = 1
    /\ current_block.rows[2].row_number = 3

-----------------------------------------------------------------------------
(* C10: reading a line that a cell validator rejects reports the failure,  *)
(* adds no Row, emits no block and leaves the type, number, version and    *)
(* rows of the open block as they were; the parser goes on.                *)
CellRejected(line) ==
    /\ line # <<>>
    /\ ~startswith(line[1], COMMENT_SIGN)
    /\ upper(line[1]) \in DOMAIN row_validators_list
    /\ IsBodyLine(line) => get_block_number(line, 0).tag = "ok"
    /\ get_row_object(row_validators_list[upper(line[1])], line, 0, 0).tag
           = "ValidationError"

C10_CellRejectionLeavesBlock ==
    [][(JustRead /\ CellRejected(TheLine))
        => /\ emitted' = emitted
           /\ current_block' = current_block
           /\ pc' = "loop"
           /\ Len(log') = Len(log) + 1
           /\ Last(log').exc = "CellValidationFailure"
           /\ Last(log').row_number = Len(lines')]_vars

-----------------------------------------------------------------------------
(* C11: once the parse has ended (the input is exhausted and the last      *)
(* block taken, the consumer has stopped early, or an error has ended the  *)
(* parse) the file handle parse_file opened is closed.                     *)
C11_HandleClosedAtEnd ==
    pc \in {"done", "crashed", "abandoned"} => tsv = "closed"

-----------------------------------------------------------------------------
(* C12: in every Row of every emitted block the Cells stand, in column     *)
(* order, for columns that have a validator whose result was neither None  *)
(* nor the empty string; each Cell holds at least one value, the values    *)
(* the validator returned, all under the validator's declared cell type.   *)
CellValues(c) ==
    CASE c.cell_type = "STRING"  -> c.string_value
      [] c.cell_type = "INTEGER" -> c.integer_value
      [] c.cell_type = "DECIMAL" -> c.decimal_value
      [] c.cell_type = "BOOLEAN" -> c.boolean_value
      [] OTHER                   -> <<>>

OnlyDeclaredType(c) ==
    /\ c.cell_type # "STRING"  => c.string_value = <<>>
    /\ c.cell_type # "INTEGER" => c.integer_value = <<>>
    /\ c.cell_type # "DECIMAL" => c.decimal_value = <<>>
    /\ c.cell_type # "BOOLEAN" => c.boolean_value = <<>>

ReturnedEmptyString(r) ==
    r.tag = "ok" /\ ~r.val.is_list /\ ToString(r.val.items[1]) = ToString("")

CellStandsFor(c, v, content) ==
    LET r == validate_value(v, content, 0)
    IN  /\ v # NoValidator
        /\ r.tag = "ok"
        /\ ~ReturnedEmptyString(r)
        /\ c.name = v.cell_name
        /\ c.cell_type = v.cell_type
        /\ c.cell_type \in {"STRING", "INTEGER", "DECIMAL", "BOOLEAN"}
        /\ OnlyDeclaredType(c)
        /\ Len(CellValues(c)) >= 1
        /\ CellValues(c) = r.val.items

CellsOfRowOk(row) ==
    LET line == lines[row.row_number]
        vs   == row_validators_list[row.type]
    IN  \E f \in [DOMAIN row.cells -> ZippedColumns(vs, line)] :
            /\ \A k \in DOMAIN row.cells : \A l \in DOMAIN row.cells :
                   k < l => f[k] < f[l]
            /\ \A k \in DOMAIN row.cells :
                   CellStandsFor(row.cells[k], vs[f[k]], line[f[k]])

C12_CellsOfValidatedColumns ==
    \A b \in DOMAIN emitted :
        \A i \in DOMAIN emitted[b].rows : CellsOfRowOk(emitted[b].rows[i])

\* A row that lost its empty third column and a row with a two-valued cell.
C12_Witness ==
    /\ \E b \in DOMAIN emitted : \E i \in DOMAIN emitted[b].rows :
           /\ lines[emitted[b].rows[i].row_number] = <<"BODY01", "1", "">>
           /\ Len(emitted[b].rows[i].cells) = 2
    /\ \E b \in DOMAIN emitted : \E i \in DOMAIN emitted[b].rows :
           \E k \in DOMAIN emitted[b].rows[i].cells :
               Len(emitted[b].rows[i].cells[k].string_value) = 2

-----------------------------------------------------------------------------
(* Vocabulary of the claims about block boundaries.                        *)

\* A line that gets past the comment check and line 164.
Classified(line) ==
    /\ line # <<>>
    /\ ~startswith(line[1], COMMENT_SIGN)
    /\ upper(line[1]) \in DOMAIN row_validators_list

\* The row type of a classified line: its upper-cased first field.
RowTypeOf(line) == upper(line[1])

\* The kind of block a row type belongs to.
KindOf(row_type) ==
    IF row_type \in HEAD_ROWS THEN "HEAD"
    ELSE IF row_type \in FOOT_ROWS THEN "FOOT"
    ELSE "BODY"

\* The boundary detector signals closure for this line, were it read next.
SignalsClosure(line) ==
    is_end_of_block(line, row_number + 1, current_block) = Ok(TRUE)

-----------------------------------------------------------------------------
(* C13: while the open block has type HEAD (FOOT), the boundary detector   *)
(* signals closure for a classified line exactly when the line's row type, *)
(* its upper-cased first field, is not HEAD-class (not FOOT-class).        *)
C13_TypedBlockBoundary ==
    (pc = "loop" /\ current_block.type_assigned
                 /\ current_block.type \in {"HEAD", "FOOT"})
    => \A line \in Lines :
           Classified(line)
           => (SignalsClosure(line)
                   <=> KindOf(RowTypeOf(line)) # current_block.type)

-----------------------------------------------------------------------------
(* C14: while the open block has type BODY or has no type yet, the         *)
(* boundary detector signals closure for a classified line exactly when    *)
(* the row type is FOOT-class or the line's integer block number differs   *)
(* from the block's number; a body row with the number of the open BODY    *)
(* block does not close it.                                                *)
NumberDiffers(line) ==
    LET n == get_block_number(line, row_number + 1)
    IN  n.tag = "ok" /\ n.val # current_block.number

C14_BodyOrUnsetBoundary ==
    (pc = "loop" /\ (current_block.type = "BODY"
                        \/ ~current_block.type_assigned))
    => \A line \in Lines :
           Classified(line)
           => /\ SignalsClosure(line)
                    <=> (RowTypeOf(line) \in FOOT_ROWS \/ NumberDiffers(line))
              /\ (/\ current_block.type = "BODY"
                  /\ IsBodyLine(line)
                  /\ get_block_number(line, row_number + 1)
                         = Ok(current_block.number))
                 => is_end_of_block(line, row_number + 1, current_block)
                        = Ok(FALSE)

-----------------------------------------------------------------------------
(* C15: a block's type, once set, stays what it is as long as the block    *)
(* is the open one, and it is the kind of the block's first row.           *)
TypeFromFirstRow(block) ==
    (block.type_assigned /\ block.rows # <<>>)
    => block.type = KindOf(block.rows[1].type)

C15_TypeSetOnce ==
    [][/\ (current_block'.oid = current_block.oid
              /\ current_block.type_assigned)
          => current_block'.type = current_block.type
       /\ TypeFromFirstRow(current_block')]_vars

-----------------------------------------------------------------------------
(* C16: the rows of an emitted block are all of the kind of the block's    *)
(* type, and the rows of a BODY block all carry the block's number in      *)
(* their second field.                                                     *)
RowFitsBlock(row, block) ==
    /\ KindOf(row.type) = block.type
    /\ block.type = "BODY"
       => get_block_number(lines[row.row_number], row.row_number)
              = Ok(block.number)

C16_RowsOfOneKind ==
    \A b \in DOMAIN emitted :
        \A i \in DOMAIN emitted[b].rows :
            RowFitsBlock(emitted[b].rows[i], emitted[b])

-----------------------------------------------------------------------------
(* C17: an emitted block with a version holds a Row of type HEAD whose     *)
(* second field is that version; a block without a HEAD row has none.      *)
HeadRowsOf(block) ==
    {i \in DOMAIN block.rows : block.rows[i].type = "HEAD"}

C17_VersionFromHeadRow ==
    \A b \in DOMAIN emitted :
        /\ emitted[b].version # ""
           => \E i \in HeadRowsOf(emitted[b]) :
                  lines[emitted[b].rows[i].row_number][2] = emitted[b].version
        /\ HeadRowsOf(emitted[b]) = {} => emitted[b].version = ""

-----------------------------------------------------------------------------
(* C18: a block that has been emitted is final. emitted holds each block   *)
(* as it was when it was yielded and oid names the Block object, so the    *)
(* object the consumer holds has changed iff the parser's current_block    *)
(* has the oid of an emitted block and differs from it. Each emission is   *)
(* a new object, emitted blocks stay as they were from step to step, and   *)
(* while lines are processed the open block is none of the emitted ones.   *)
C18_EmittedBlocksAreFinal ==
    /\ \A i \in DOMAIN emitted : emitted[i].oid = i - 1
    /\ \A i \in DOMAIN emitted :
           emitted[i].oid = current_block.oid
           => /\ emitted[i] = current_block
              /\ pc \in {"yield", "yield_final", "done", "abandoned"}

\* Two blocks have been closed and the line that closed the second has gone
\* to the fresh block.
C18_Witness ==
    /\ pc = "loop"
    /\ closures = 2
    /\ emitted[2].rows # <<>>
    /\ current_block.oid = 2
    /\ current_block.rows # <<>>

-----------------------------------------------------------------------------
(* C19: when the generator has been consumed to its end, every accepted    *)
(* line (known row type, integer block number on a body row, no cell       *)
(* rejected) has exactly one Row in exactly one emitted block, and the     *)
(* rows of the emitted blocks, in emission order, have strictly increasing *)
(* row numbers.                                                            *)
Accepted(line) ==
    /\ Classified(line)
    /\ IsBodyLine(line) => get_block_number(line, 0).tag = "ok"
    /\ get_row_object(row_validators_list[RowTypeOf(line)], line, 0, 0).tag
           = "ok"

RowPositions ==
    {p \in (DOMAIN emitted) \X (DOMAIN lines) :
        p[2] \in DOMAIN emitted[p[1]].rows}

RowNumberAt(p) == emitted[p[1]].rows[p[2]].row_number

C19_EveryAcceptedLineOnce ==
    pc = "done"
    => /\ \A k \in DOMAIN lines :
              Accepted(lines[k])
              => Cardinality({p \in RowPositions : RowNumberAt(p) = k}) = 1
       /\ \A p \in RowPositions : \A q \in RowPositions :
              (p[1] < q[1] \/ (p[1] = q[1] /\ p[2] < q[2]))
              => RowNumberAt(p) < RowNumberAt(q)

-----------------------------------------------------------------------------
(* C20: every block emitted by a closure, that is every emitted block but  *)
(* the one of the final flush, has at least one Row and a type that has    *)
(* been set.                                                               *)
C20_ClosedBlocksNotEmpty ==
    \A i \in DOMAIN emitted :
        i <= closures
        => /\ emitted[i].rows # <<>>
           /\ emitted[i].type_assigned
           /\ emitted[i].type \in {"HEAD", "BODY", "FOOT"}

====
